---- MODULE Spec2Model ----
\* Job orchestration of toonkor_collector2/consumers.py: the
\* DownloadTranslateConsumer websocket sessions and the QtConsumer, the
\* persisted store and the Status Cache they write, the channel-layer groups
\* they publish to, and the downloader / cleaner queues they hand batches to
\* (Spec, SpecQt); and FileHandler of modules/utils/file_handler.py
\* (SpecFiles).
\*
\* A handler runs without interruption between two awaits (one asyncio event
\* loop); at `await group_send` other handlers and the executors may run.
EXTENDS Integers, Sequences, FiniteSets, TLC

\* ------------------------------------------------------------------ bounds
NumSessions == 2     \* DownloadTranslateConsumer connections
MaxIndex == 2        \* chapter indexes 1..MaxIndex
MaxBatch == 2        \* chapters per request
MaxRequests == 2     \* handler invocations (receive calls) in a run

\* ------------------------------------------------------------------ values
Absent == "absent"   \* a key that a dict / the cache does not hold
NoIndex == -1        \* a chapter dict without the 'index' key

Series == {"/a", "/b"}
Sessions == 1..NumSessions
Idx == 1..MaxIndex

StatusChoices == {"NONE", "LOADING", "READY", "REMOVING", "ERROR"}
StatusFields == {"download_status", "translation_status"}
\* the keys update_cached_chapter is called with in consumers.py
CacheFields == {"download_status", "translation_status", "remove_status"}

\* encode_name: deterministic and collision free on the series ids
encode_name(id) == <<"enc", id>>
GroupNameShared(id) == <<"download_translate", encode_name("/a")>>

\* f"download_translate_{encode_name(id)}"
GroupName(id) == <<"download_translate", encode_name(id)>>
QtGroup == <<"qt">>
Groups == {GroupName(id) : id \in Series} \cup {QtGroup}

\* a chapter dict of a request: only the keys the handlers read or write
ChapterDict(i) ==
  [index |-> i, download_status |-> Absent, translation_status |-> Absent,
   status |-> Absent]
\* the batches of the requests: distinct chapters in ascending order, at most
\* MaxBatch of them, the last one possibly a dict without 'index'
IndexLists ==
  {q \in UNION {[1..n -> Idx] : n \in 0..MaxBatch} :
     \A i, j \in DOMAIN q : i < j => q[i] < q[j]}
WellFormedLists ==
  {[i \in DOMAIN q |-> ChapterDict(q[i])] : q \in IndexLists \ {<<>>}}
MalformedLists ==
  {Append([i \in DOMAIN q |-> ChapterDict(q[i])], ChapterDict(NoIndex)) :
     q \in {p \in IndexLists : Len(p) < MaxBatch}}
ChapterLists == WellFormedLists \cup MalformedLists

Flags == {"true", "false", Absent}
RemoveChoices ==
  {rc \in [downloaded : Flags, translated : Flags] :
     rc.downloaded = Absent => rc.translated = Absent}
NoChoices == [downloaded |-> Absent, translated |-> Absent]

\* json.loads(text_data) of DownloadTranslateConsumer.receive: the keys the
\* handler reads; has_* is FALSE when the key is missing from the message.
Data(task, hc, chapters, hr, rc) ==
  [task |-> task, has_chapters |-> hc, chapters |-> chapters,
   has_remove_choices |-> hr, remove_choices |-> rc]
TaskKinds == {"download", "download_translate", "translate", "remove", "other"}
Requests ==
  {Data(Absent, FALSE, <<>>, FALSE, NoChoices),
   Data("download", FALSE, <<>>, FALSE, NoChoices),
   Data("remove", TRUE, <<>>, FALSE, NoChoices)}
  \cup {Data(t, TRUE, c, FALSE, NoChoices) :
          t \in TaskKinds \ {"remove"}, c \in ChapterLists}
  \cup {Data("remove", TRUE, c, TRUE, rc) :
          c \in ChapterLists, rc \in RemoveChoices}

\* progress dicts as sets of <<key, value>>; {} is the empty dict
Progress(current, total) == {<<"current", current>>, <<"total", total>>}
EmptyProgress == {}

VARIABLES
  store,        \* persisted Chapter rows: <<series, index>> -> status fields
  cache,        \* Status Cache: <<series, index, field>> -> status or Absent
  groups,       \* channel layer: group -> set of member channels
  wire,         \* the message the last step published with group_send, if any
  downloaderQ,  \* downloader.append calls not yet executed
  cleanerQ,     \* cleaner.append calls not yet executed
  sess,         \* DownloadTranslateConsumer instances
  received,     \* number of requests received so far
  qt,           \* the QtConsumer instance
  fh            \* a FileHandler and the files it has copied

vars ==
  <<store, cache, groups, wire, downloaderQ, cleanerQ, sess, received, qt, fh>>

\* ------------------------------------------------------- Status Cache
CacheKeys == Series \X Idx \X CacheFields

\* update_cached_chapter(manhwa_id, index, field, value) on the handler state
\* st; st.writes records the call with the value it replaces.
UpdateCachedChapter(st, manhwa_id, index, field, value) ==
  [st EXCEPT
     !.cache[<<manhwa_id, index, field>>] = value,
     !.writes = Append(@, [key |-> <<manhwa_id, index, field>>,
                           old |-> st.cache[<<manhwa_id, index, field>>],
                           new |-> value])]

\* ------------------------------------------------------- run_download_translate
\* `if task == 'download_translate':`
SetsTranslationAlways(task) == TRUE
SetsTranslation(task) == task = "download_translate"

\* one iteration of `for chapter in chapters:`; chapter['index'] raises
\* KeyError after the dict assignment when the key is missing
RunDownloadTranslateBodyNoCache(st, manhwa_id, task, i) ==
  LET ch == st.chapters[i]
      s0 == [st EXCEPT !.chapters[i].download_status = "LOADING"]
  IN  IF ch.index = NoIndex
        THEN [s0 EXCEPT !.raised = TRUE]
        ELSE IF SetsTranslation(task)
          THEN [s0 EXCEPT !.chapters[i].translation_status = "LOADING"]
          ELSE s0
RunDownloadTranslateBody(st, manhwa_id, task, i) ==
  LET ch == st.chapters[i]
      s0 == [st EXCEPT !.chapters[i].download_status = "LOADING"]
  IN  IF ch.index = NoIndex
        THEN [s0 EXCEPT !.raised = TRUE]
        ELSE LET s1 == UpdateCachedChapter(s0, manhwa_id, ch.index,
                         "download_status", "LOADING")
             IN  IF SetsTranslation(task)
                   THEN UpdateCachedChapter(
                          [s1 EXCEPT !.chapters[i].translation_status = "LOADING"],
                          manhwa_id, ch.index, "translation_status", "LOADING")
                   ELSE s1

RECURSIVE RunDownloadTranslateLoop(_, _, _, _)
RunDownloadTranslateLoop(st, manhwa_id, task, i) ==
  IF i > Len(st.chapters) \/ st.raised
    THEN st
    ELSE RunDownloadTranslateLoop(
           RunDownloadTranslateBody(st, manhwa_id, task, i),
           manhwa_id, task, i + 1)

\* the statements after the loop, in program order
RunDownloadTranslateStepsSwapped == <<"append", "group_send">>
RunDownloadTranslateSteps == <<"group_send", "append">>

\* ------------------------------------------------------- run_remove
\* one iteration of `for chapter in chapters:`; remove_choices[...] raises
\* KeyError on a missing flag, chapter['index'] on a missing index
RunRemoveBodyBoth(st, manhwa_id, rc, i) ==
  LET ch == st.chapters[i]
      s0 == [st EXCEPT !.chapters[i].download_status = "REMOVING",
                       !.chapters[i].translation_status = "REMOVING"]
  IN  IF rc.downloaded = Absent \/ rc.translated = Absent \/ ch.index = NoIndex
        THEN [s0 EXCEPT !.raised = TRUE]
        ELSE UpdateCachedChapter(
               UpdateCachedChapter(s0, manhwa_id, ch.index, "download_status",
                                   "REMOVING"),
               manhwa_id, ch.index, "remove_status", "REMOVING")
RunRemoveBody(st, manhwa_id, rc, i) ==
  LET ch == st.chapters[i]
      s1 == IF rc.downloaded = Absent
              THEN [st EXCEPT !.raised = TRUE]
              ELSE IF rc.downloaded = "true"
                THEN LET d == [st EXCEPT !.chapters[i].download_status = "REMOVING"]
                     IN  IF ch.index = NoIndex
                           THEN [d EXCEPT !.raised = TRUE]
                           ELSE UpdateCachedChapter(d, manhwa_id, ch.index,
                                  "download_status", "REMOVING")
                ELSE st
  IN  IF s1.raised
        THEN s1
        ELSE IF rc.translated = Absent
          THEN [s1 EXCEPT !.raised = TRUE]
          ELSE IF rc.translated = "true"
            THEN LET t == [s1 EXCEPT !.chapters[i].translation_status = "REMOVING"]
                 IN  IF ch.index = NoIndex
                       THEN [t EXCEPT !.raised = TRUE]
                       ELSE UpdateCachedChapter(t, manhwa_id, ch.index,
                              "remove_status", "REMOVING")
            ELSE s1

RECURSIVE RunRemoveLoop(_, _, _, _)
RunRemoveLoop(st, manhwa_id, rc, i) ==
  IF i > Len(st.chapters) \/ st.raised
    THEN st
    ELSE RunRemoveLoop(RunRemoveBody(st, manhwa_id, rc, i),
                       manhwa_id, rc, i + 1)

RunRemoveSteps == <<"group_send", "append">>

\* ------------------------------------------------------- sessions
\* The frame of the handler a consumer runs: its locals, the request it was
\* called with, the cache writes it has made and whether it has published.
NoRequest == Data(Absent, FALSE, <<>>, FALSE, NoChoices)
IdleFrame ==
  [handler |-> "none", step |-> 0, request |-> NoRequest, chapters |-> <<>>,
   progress |-> EmptyProgress, writes |-> <<>>, sent |-> 0]
NewSession ==
  [pc |-> "new", manhwa_id |-> Absent, group_name |-> <<>>, frame |-> IdleFrame]

Steps(handler) ==
  IF handler = "run_remove" THEN RunRemoveSteps ELSE RunDownloadTranslateSteps

NoMessage ==
  [group |-> <<>>, type |-> "none", chapters |-> <<>>,
   progress |-> EmptyProgress, to |-> {}, kind |-> "none", from |-> 0,
   series |-> Absent, request |-> NoRequest, writes |-> <<>>,
   announced |-> FALSE]

\* ------------------------------------------------------------ QtConsumer
\* text of data["chapter"]: decimal strings and one that int() rejects
ChapterTexts == {<<"1">>, <<"2">>, <<"1", "2">>, <<"x">>}
Digits == <<"0", "1", "2", "3", "4", "5", "6", "7", "8", "9">>
IsDigit(c) == \E i \in DOMAIN Digits : Digits[i] = c
DigitValue(c) == (CHOOSE i \in DOMAIN Digits : Digits[i] = c) - 1

\* int(text) succeeds
IsInt(text) == text # <<>> /\ \A i \in DOMAIN text : IsDigit(text[i])

\* int(text)
RECURSIVE ParseInt(_)
ParseInt(text) ==
  IF text = <<>> THEN 0
  ELSE 10 * ParseInt(SubSeq(text, 1, Len(text) - 1))
         + DigitValue(text[Len(text)])

\* the progress counter the Qt application reports with a finished chapter
QtProgress == Progress(1, 1)

QtData(toonkor_id, hc, chapter, hp, progress) ==
  [toonkor_id |-> toonkor_id, has_chapter |-> hc, chapter |-> chapter,
   has_progress |-> hp, progress |-> progress]

\* the messages of the Qt application: well formed, or lacking the first key
\* that the handler reads, or lacking only "progress"
QtMessages ==
  {QtData(Absent, FALSE, <<>>, FALSE, EmptyProgress)}
  \cup {QtData(id, FALSE, <<>>, FALSE, EmptyProgress) : id \in Series}
  \cup {QtData(id, TRUE, c, TRUE, QtProgress) :
          id \in Series, c \in ChapterTexts}
  \cup {QtData(id, TRUE, c, FALSE, EmptyProgress) :
          id \in Series, c \in ChapterTexts}

NoQtData == QtData(Absent, FALSE, <<>>, FALSE, EmptyProgress)
NoRow == [download_status |-> Absent, translation_status |-> Absent]
QtChannel == 0

\* locals of QtConsumer.receive; `saved` and `writes` list the store and
\* cache writes the running handler has made, `raised_at` where it stopped
QtIdleFrame ==
  [step |-> 0, data |-> NoQtData, toonkor_id |-> Absent, chapter |-> NoIndex,
   chapter_obj |-> NoRow, saved |-> <<>>, writes |-> <<>>,
   raised_at |-> "none"]

NewQt == [pc |-> "new", group_name |-> <<>>, frame |-> QtIdleFrame]

\* ----------------------------------------------------------- FileHandler
\* modules/utils/file_handler.py. A path is a sequence of characters; the
\* non-ASCII ones stand for any character outside string.printable.
MaxPathLen == 3      \* characters per input path
MaxFiles == 2        \* input paths per prepare_files call

NonAsciiChars == {"é", "ü"}
PathChars == {"a", "0", "/", "."} \cup NonAsciiChars
ArchiveSuffixes ==
  {<<".", "c", "b", "r">>, <<".", "c", "b", "z">>, <<".", "z", "i", "p">>,
   <<".", "c", "b", "t">>, <<".", "c", "b", "7">>, <<".", "p", "d", "f">>,
   <<".", "e", "p", "u", "b">>}

EndsWith(path, suffix) ==
  /\ Len(path) >= Len(suffix)
  /\ SubSeq(path, Len(path) - Len(suffix) + 1, Len(path)) = suffix

\* path.lower().endswith(('.cbr', ...)); the characters of the model are
\* lower case already
IsArchive(path) == \E suffix \in ArchiveSuffixes : EndsWith(path, suffix)

\* str.isascii
IsAscii(path) == \A i \in DOMAIN path : path[i] \notin NonAsciiChars

\* c in string.printable
IsPrintable(c) == c \notin NonAsciiChars
Printable(path) == SelectSeq(path, IsPrintable)

\* str.rfind(c) + 1
RFind(path, c) ==
  IF \E i \in DOMAIN path : path[i] = c
    THEN CHOOSE i \in DOMAIN path :
           path[i] = c /\ \A j \in DOMAIN path : path[j] = c => j <= i
    ELSE 0

\* str.rstrip('/')
RECURSIVE RStripSep(_)
RStripSep(path) ==
  IF path # <<>> /\ path[Len(path)] = "/"
    THEN RStripSep(SubSeq(path, 1, Len(path) - 1))
    ELSE path

\* os.path.dirname
DirName(path) ==
  LET head == SubSeq(path, 1, RFind(path, "/")) IN
    IF RStripSep(head) # <<>> THEN RStripSep(head) ELSE head

\* os.path.basename
BaseName(path) == SubSeq(path, RFind(path, "/") + 1, Len(path))

\* os.path.splitext of a name without separators: the extension starts at
\* the last dot unless only dots precede it
SplitExt(name) ==
  LET dot == RFind(name, ".") IN
    IF dot > 0 /\ \E i \in 1..(dot - 1) : name[i] # "."
      THEN [root |-> SubSeq(name, 1, dot - 1),
            ext |-> SubSeq(name, dot, Len(name))]
      ELSE [root |-> name, ext |-> <<>>]

\* os.path.join(a, b)
PathJoin(a, b) ==
  IF b # <<>> /\ b[1] = "/" THEN b
  ELSE IF a = <<>> \/ a[Len(a)] = "/" THEN a \o b
  ELSE a \o <<"/">> \o b

\* str(index)
RECURSIVE Str(_)
Str(n) ==
  IF n < 10 THEN <<Digits[n + 1]>>
  ELSE Str(n \div 10) \o <<Digits[(n % 10) + 1]>>

\* the destination sanitize_and_copy_files computes for a non-ASCII path
SanitizedPath(image_path, index) ==
  LET name == Printable(image_path)
      dir_name == Printable(DirName(image_path))
      split == SplitExt(BaseName(name))
      basename == IF split.ext = <<>> THEN <<>> ELSE split.root
      ext == IF split.ext = <<>> THEN split.root ELSE split.ext
  IN  PathJoin(dir_name, basename \o Str(index) \o ext)

\* shutil.copy(src, dst): dst now holds the content of src
Copy(st, src, dst) ==
  LET content == (CHOOSE f \in st.fs : f.path = src).content IN
    [st EXCEPT
       !.fs = {f \in @ : f.path # dst}
                \cup {[path |-> dst, content |-> content]},
       !.copies = Append(@, [src |-> src, dst |-> dst,
                             replaced |-> \E f \in st.fs : f.path = dst])]

\* sanitize_and_copy_files(file_paths), from position i of the list; oks[k]
\* tells whether the k-th copy succeeds or raises IOError (caught).
\* os.makedirs('') raises FileNotFoundError, which nothing catches.
RECURSIVE SanitizeAndCopyFiles(_, _, _, _)
SanitizeAndCopyFiles(st, file_paths, i, ok) ==
  IF i > Len(file_paths) \/ st.raised THEN st
  ELSE
    LET image_path == file_paths[i]
        index == i - 1
        sanitized_path == SanitizedPath(image_path, index)
        next ==
          IF IsAscii(image_path)
            THEN [st EXCEPT !.sanitized_paths = Append(@, image_path)]
          ELSE IF Printable(DirName(image_path)) = <<>>
            THEN [st EXCEPT !.raised = TRUE]
          ELSE IF ok
            THEN [Copy(st, image_path, sanitized_path)
                    EXCEPT !.sanitized_paths = Append(@, sanitized_path)]
          ELSE [st EXCEPT !.sanitized_paths = Append(@, image_path)]
    IN  SanitizeAndCopyFiles(next, file_paths, i + 1, ok)

\* the for loop of prepare_files over non-archive paths:
\* `path = self.sanitize_and_copy_files([path])[0]`
RECURSIVE PrepareLoop(_, _, _, _)
PrepareLoop(st, file_paths, i, oks) ==
  IF i > Len(file_paths) \/ st.raised THEN st
  ELSE
    LET r == SanitizeAndCopyFiles([st EXCEPT !.sanitized_paths = <<>>],
                                  <<file_paths[i]>>, 1, oks[i])
    IN  PrepareLoop(
          IF r.raised THEN r
          ELSE [r EXCEPT !.all_image_paths = Append(@, r.sanitized_paths[1])],
          file_paths, i + 1, oks)

\* input files: names of existing files, not directories
FilePaths ==
  {path \in UNION {[1..n -> PathChars] : n \in 1..MaxPathLen} :
     /\ BaseName(path) \notin {<<>>, <<".">>, <<".", ".">>}
     /\ ~IsArchive(path)}

\* lists of distinct input files
FileLists ==
  {<<path>> : path \in FilePaths}
  \cup {<<p, q>> : <<p, q>> \in {pq \in FilePaths \X FilePaths : pq[1] # pq[2]}}

\* FileHandler(): `inputs` remembers the list prepare_files was called on,
\* `fs` the files on disk with the input whose content each one holds,
\* `copies` the shutil.copy calls made
NoFiles ==
  [pc |-> "new", file_paths |-> <<>>, inputs |-> <<>>, fs |-> {},
   copies |-> <<>>]

Init ==
  /\ store = [k \in Series \X Idx |->
                [download_status |-> "NONE", translation_status |-> "NONE"]]
  /\ cache = [k \in CacheKeys |->
                IF k[3] \in StatusFields THEN "NONE" ELSE Absent]
  /\ groups = [g \in Groups |-> {}]
  /\ wire = NoMessage
  /\ downloaderQ = <<>>
  /\ cleanerQ = <<>>
  /\ sess = [s \in Sessions |-> NewSession]
  /\ received = 0
  /\ qt = NewQt
  /\ fh = NoFiles

\* DownloadTranslateConsumer.connect
Connect(s, toonkor_id) ==
  /\ sess[s].pc = "new"
  /\ LET g == GroupName(toonkor_id) IN
       /\ groups' = [groups EXCEPT ![g] = @ \cup {s}]
       /\ sess' = [sess EXCEPT ![s].pc = "idle", ![s].manhwa_id = toonkor_id,
                               ![s].group_name = g]
  /\ wire' = NoMessage
  /\ UNCHANGED <<store, cache, downloaderQ, cleanerQ, received, qt, fh>>

\* DownloadTranslateConsumer.disconnect
Disconnect(s) ==
  /\ sess[s].pc = "idle"
  /\ groups' = [groups EXCEPT ![sess[s].group_name] = @ \ {s}]
  /\ sess' = [sess EXCEPT ![s].pc = "closed"]
  /\ wire' = NoMessage
  /\ UNCHANGED <<store, cache, downloaderQ, cleanerQ, received, qt, fh>>

InitialProgressFromOne(chapters) == Progress(1, Len(chapters))

\* `progress = {"current": 0, "total": len(chapters)}`
InitialProgress(chapters) == Progress(0, Len(chapters))

\* DownloadTranslateConsumer.receive up to the first await of the handler it
\* calls: the parse, the dispatch on task and the whole for loop run without
\* yielding to the event loop. An exception ends the consumer.
Receive(s, data) ==
  /\ sess[s].pc = "idle"
  /\ received < MaxRequests
  /\ received' = received + 1
  /\ LET st0 == [cache |-> cache, writes |-> <<>>,
                 chapters |-> data.chapters, raised |-> FALSE]
         parsed == /\ data.task # Absent
                   /\ data.has_chapters
                   /\ data.task = "remove" => data.has_remove_choices
         st == IF ~parsed THEN [st0 EXCEPT !.raised = TRUE]
               ELSE IF data.task = "remove"
                 THEN RunRemoveLoop(st0, sess[s].manhwa_id,
                                    data.remove_choices, 1)
                 ELSE RunDownloadTranslateLoop(st0, sess[s].manhwa_id,
                                               data.task, 1)
     IN  /\ cache' = st.cache
         /\ sess' = [sess EXCEPT
              ![s].pc = IF st.raised THEN "raised" ELSE "running",
              ![s].frame =
                [handler |-> IF ~parsed THEN "receive"
                             ELSE IF data.task = "remove" THEN "run_remove"
                             ELSE "run_download_translate",
                 step |-> 1, request |-> data,
                 chapters |-> st.chapters,
                 progress |-> IF data.task = "remove" THEN EmptyProgress
                              ELSE InitialProgress(data.chapters),
                 writes |-> st.writes, sent |-> 0]]
  /\ wire' = NoMessage
  /\ UNCHANGED <<store, groups, downloaderQ, cleanerQ, qt, fh>>

\* the handler of session s has run its current statement
Advance(s) ==
  IF sess[s].frame.step = Len(Steps(sess[s].frame.handler))
    THEN [sess EXCEPT ![s].pc = "idle", ![s].frame = IdleFrame]
    ELSE [sess EXCEPT ![s].frame.step = @ + 1]

AtStep(s, name) ==
  /\ sess[s].pc = "running"
  /\ Steps(sess[s].frame.handler)[sess[s].frame.step] = name

\* `await self.channel_layer.group_send(self.group_name, {...})`
GroupSend(s) ==
  /\ AtStep(s, "group_send")
  /\ wire' = [group |-> sess[s].group_name, type |-> "send_progress",
              chapters |-> sess[s].frame.chapters,
              progress |-> sess[s].frame.progress,
              to |-> groups[sess[s].group_name],
              kind |-> "immediate", from |-> s,
              series |-> sess[s].manhwa_id,
              request |-> sess[s].frame.request,
              writes |-> sess[s].frame.writes, announced |-> TRUE]
  /\ sess' = [Advance(s) EXCEPT ![s].frame.sent =
                IF sess[s].frame.step = Len(Steps(sess[s].frame.handler))
                  THEN 0 ELSE @ + 1]
  /\ UNCHANGED <<store, cache, groups, downloaderQ, cleanerQ, received, qt, fh>>

\* `downloader.append(self.manhwa_id, self.group_name, task, chapters)`
DownloaderAppend(s) ==
  /\ AtStep(s, "append")
  /\ sess[s].frame.handler = "run_download_translate"
  /\ downloaderQ' = Append(downloaderQ,
       [manhwa_id |-> sess[s].manhwa_id, group_name |-> sess[s].group_name,
        task |-> sess[s].frame.request.task,
        chapters |-> sess[s].frame.chapters,
        announced |-> sess[s].frame.sent > 0])
  /\ sess' = Advance(s)
  /\ wire' = NoMessage
  /\ UNCHANGED <<store, cache, groups, cleanerQ, received, qt, fh>>

\* `cleaner.append(self.manhwa_id, self.group_name, chapters, remove_choices)`
CleanerAppend(s) ==
  /\ AtStep(s, "append")
  /\ sess[s].frame.handler = "run_remove"
  /\ cleanerQ' = Append(cleanerQ,
       [manhwa_id |-> sess[s].manhwa_id, group_name |-> sess[s].group_name,
        chapters |-> sess[s].frame.chapters,
        remove_choices |-> sess[s].frame.request.remove_choices,
        announced |-> sess[s].frame.sent > 0])
  /\ sess' = Advance(s)
  /\ wire' = NoMessage
  /\ UNCHANGED <<store, cache, groups, downloaderQ, received, qt, fh>>

\* ------------------------------------------------------- stage executors
\* The downloader and the cleaner run a queued batch off the request path and
\* report each stage's outcome: the terminal transition is persisted, written
\* to the Status Cache and published to the batch's group.
StageFields(task) ==
  IF task = "download" THEN <<"download_status">>
  ELSE IF task = "translate" THEN <<"translation_status">>
  ELSE IF task = "download_translate"
    THEN <<"download_status", "translation_status">>
  ELSE <<>>

RemovalFields(rc) ==
  (IF rc.downloaded = "true" THEN <<"download_status">> ELSE <<>>)
  \o (IF rc.translated = "true" THEN <<"translation_status">> ELSE <<>>)

\* the terminal transition of one field of chapter i of the batch
Terminal(st, series, i, field, value) ==
  LET index == st.chapters[i].index
      s1 == [st EXCEPT !.store[<<series, index>>][field] = value,
                       !.chapters[i][field] = value]
  IN  UpdateCachedChapter(s1, series, index, field, value)

RECURSIVE TerminalAll(_, _, _, _, _, _)
TerminalAll(st, series, fields, values, i, f) ==
  IF i > Len(st.chapters) THEN st
  ELSE IF f > Len(fields) \/ st.chapters[i].index = NoIndex
    THEN TerminalAll(st, series, fields, values, i + 1, 1)
  ELSE TerminalAll(Terminal(st, series, i, fields[f], values[fields[f]]),
                   series, fields, values, i, f + 1)

Execute(batch, fields, values, progress) ==
  LET st == TerminalAll([store |-> store, cache |-> cache, writes |-> <<>>,
                         chapters |-> batch.chapters],
                        batch.manhwa_id, fields, values, 1, 1)
  IN  /\ store' = st.store
      /\ cache' = st.cache
      /\ wire' = [group |-> batch.group_name, type |-> "send_progress",
                  chapters |-> st.chapters, progress |-> progress,
                  to |-> groups[batch.group_name],
                  kind |-> "terminal", from |-> 0,
                  series |-> batch.manhwa_id, request |-> NoRequest,
                  writes |-> st.writes, announced |-> batch.announced]

DownloaderRun(ok) ==
  /\ downloaderQ # <<>>
  /\ LET batch == Head(downloaderQ) IN
       Execute(batch, StageFields(batch.task),
               [f \in StatusFields |-> IF ok[f] THEN "READY" ELSE "ERROR"],
               Progress(Len(batch.chapters), Len(batch.chapters)))
  /\ downloaderQ' = Tail(downloaderQ)
  /\ UNCHANGED <<groups, cleanerQ, sess, received, qt, fh>>

CleanerRun(ok) ==
  /\ cleanerQ # <<>>
  /\ LET batch == Head(cleanerQ) IN
       Execute(batch, RemovalFields(batch.remove_choices),
               [f \in StatusFields |-> IF ok[f] THEN "NONE" ELSE "ERROR"],
               EmptyProgress)
  /\ cleanerQ' = Tail(cleanerQ)
  /\ UNCHANGED <<groups, downloaderQ, sess, received, qt, fh>>

\* ------------------------------------------------------- QtConsumer
\* QtConsumer.connect
QtConnect ==
  /\ qt.pc = "new"
  /\ groups' = [groups EXCEPT ![QtGroup] = @ \cup {QtChannel}]
  /\ qt' = [qt EXCEPT !.pc = "idle", !.group_name = QtGroup]
  /\ wire' = NoMessage
  /\ UNCHANGED <<store, cache, downloaderQ, cleanerQ, sess, received, fh>>

\* QtConsumer.disconnect
QtDisconnect ==
  /\ qt.pc = "idle"
  /\ groups' = [groups EXCEPT ![qt.group_name] = @ \ {QtChannel}]
  /\ qt' = [qt EXCEPT !.pc = "closed"]
  /\ wire' = NoMessage
  /\ UNCHANGED <<store, cache, downloaderQ, cleanerQ, sess, received, fh>>

\* the statements of QtConsumer.receive after Chapter.objects.get
QtReceiveSteps == <<"save", "update_cached_chapter", "group_send">>

\* QtConsumer.receive up to `chapter_obj.translation_status = READY`: the key
\* reads, int() and the lookup, which raises DoesNotExist when the store has
\* no such chapter and may fail like any database read (ok = FALSE)
QtReceive(data, ok) ==
  /\ qt.pc = "idle"
  /\ received < MaxRequests
  /\ received' = received + 1
  /\ LET parsed == /\ data.toonkor_id # Absent
                   /\ data.has_chapter
                   /\ IsInt(data.chapter)
         chapter == IF parsed THEN ParseInt(data.chapter) ELSE NoIndex
         key == <<data.toonkor_id, chapter>>
         got == parsed /\ ok /\ key \in DOMAIN store
     IN  qt' = [qt EXCEPT
           !.pc = IF got THEN "running" ELSE "raised",
           !.frame =
             [step |-> 1, data |-> data,
              toonkor_id |-> IF parsed THEN data.toonkor_id ELSE Absent,
              chapter |-> chapter,
              chapter_obj |-> IF got
                THEN [store[key] EXCEPT !.translation_status = "READY"]
                ELSE NoRow,
              saved |-> <<>>, writes |-> <<>>,
              raised_at |-> IF ~parsed THEN "parse"
                            ELSE IF ~got THEN "get" ELSE "none"]]
  /\ wire' = NoMessage
  /\ UNCHANGED <<store, cache, groups, downloaderQ, cleanerQ, sess, fh>>

AtQtStep(name) ==
  /\ qt.pc = "running"
  /\ QtReceiveSteps[qt.frame.step] = name

\* `await sync_to_async(chapter_obj.save)()`: writes every field of the row
\* as the handler holds it, or fails like any database write (ok = FALSE)
QtSave(ok) ==
  /\ AtQtStep("save")
  /\ LET key == <<qt.frame.toonkor_id, qt.frame.chapter>> IN
       IF ok
         THEN /\ store' = [store EXCEPT ![key] = qt.frame.chapter_obj]
              /\ qt' = [qt EXCEPT
                   !.frame.step = @ + 1,
                   !.frame.saved = Append(@, [key |-> key, old |-> store[key],
                                              new |-> qt.frame.chapter_obj])]
         ELSE /\ store' = store
              /\ qt' = [qt EXCEPT !.pc = "raised", !.frame.raised_at = "save"]
  /\ wire' = NoMessage
  /\ UNCHANGED <<cache, groups, downloaderQ, cleanerQ, sess, received, fh>>

\* `update_cached_chapter(toonkor_id, chapter, 'translation_status', 'READY')`
QtUpdateCachedChapter ==
  /\ AtQtStep("update_cached_chapter")
  /\ LET st == UpdateCachedChapter([cache |-> cache, writes |-> qt.frame.writes],
                                   qt.frame.toonkor_id, qt.frame.chapter,
                                   "translation_status", "READY")
     IN  /\ cache' = st.cache
         /\ qt' = [qt EXCEPT !.frame.step = @ + 1, !.frame.writes = st.writes]
  /\ wire' = NoMessage
  /\ UNCHANGED <<store, groups, downloaderQ, cleanerQ, sess, received, fh>>

\* `await self.channel_layer.group_send(group, {...})`; building the message
\* reads data["progress"], which raises KeyError when the key is missing
QtGroupSend ==
  /\ AtQtStep("group_send")
  /\ LET group == GroupName(qt.frame.toonkor_id) IN
       IF qt.frame.data.has_progress
         THEN /\ wire' = [group |-> group, type |-> "send_progress",
                          chapters |-> <<[ChapterDict(qt.frame.chapter)
                                            EXCEPT !.status = "Translated"]>>,
                          progress |-> qt.frame.data.progress,
                          to |-> groups[group],
                          kind |-> "translated", from |-> QtChannel,
                          series |-> qt.frame.toonkor_id,
                          request |-> NoRequest,
                          writes |-> qt.frame.writes, announced |-> FALSE]
              /\ qt' = IF qt.frame.step = Len(QtReceiveSteps)
                         THEN [qt EXCEPT !.pc = "idle", !.frame = QtIdleFrame]
                         ELSE [qt EXCEPT !.frame.step = @ + 1]
         ELSE /\ wire' = NoMessage
              /\ qt' = [qt EXCEPT !.pc = "raised",
                                  !.frame.raised_at = "message"]
  /\ UNCHANGED <<store, cache, groups, downloaderQ, cleanerQ, sess, received,
                 fh>>

\* ------------------------------------------------------- FileHandler
\* the caller assigns self.file_paths the files the user selected
SetFilePaths ==
  /\ fh.pc = "new"
  /\ \E paths \in FileLists :
       fh' = [fh EXCEPT !.pc = "loaded", !.file_paths = paths,
                        !.fs = {[path |-> paths[i], content |-> paths[i]] :
                                  i \in DOMAIN paths}]
  /\ UNCHANGED <<store, cache, groups, wire, downloaderQ, cleanerQ, sess,
                 received, qt>>

\* FileHandler.prepare_files
PrepareFiles(oks) ==
  /\ fh.pc = "loaded"
  /\ LET st == PrepareLoop([fs |-> fh.fs, copies |-> <<>>, raised |-> FALSE,
                            sanitized_paths |-> <<>>,
                            all_image_paths |-> <<>>],
                           fh.file_paths, 1, oks)
     IN  fh' = [pc |-> IF st.raised THEN "raised" ELSE "done",
                file_paths |-> IF st.raised THEN fh.file_paths
                               ELSE st.all_image_paths,
                inputs |-> fh.file_paths, fs |-> st.fs,
                copies |-> st.copies]
  /\ UNCHANGED <<store, cache, groups, wire, downloaderQ, cleanerQ, sess,
                 received, qt>>

Next ==
  \/ \E s \in Sessions, id \in Series : Connect(s, id)
  \/ \E s \in Sessions : Disconnect(s)
  \/ \E s \in Sessions, data \in Requests : Receive(s, data)
  \/ \E s \in Sessions : GroupSend(s)
  \/ \E s \in Sessions : DownloaderAppend(s)
  \/ \E s \in Sessions : CleanerAppend(s)
  \/ \E ok \in [StatusFields -> BOOLEAN] : DownloaderRun(ok)
  \/ \E ok \in [StatusFields -> BOOLEAN] : CleanerRun(ok)

\* ------------------------------------------------------- properties
Range(q) == {q[i] : i \in DOMAIN q}

\* the handler whose writes are `writes` has called
\* update_cached_chapter(series, index, field, value)
Wrote(writes, series, index, field, value) ==
  \E w \in Range(writes) : w.key = <<series, index, field>> /\ w.new = value

WritesTo(writes, field) == {w \in Range(writes) : w.key[3] = field}

\* C1: when the immediate message of a download or download_translate submit
\* is published, the handler has already written LOADING to the Status Cache
\* for every chapter of the batch (both fields for download_translate).
C1_CacheWriteBeforeBroadcast ==
  (/\ wire.kind = "immediate"
   /\ wire.request.task \in {"download", "download_translate"})
  => \A i \in DOMAIN wire.chapters :
       /\ Wrote(wire.writes, wire.series, wire.chapters[i].index,
                "download_status", "LOADING")
       /\ wire.request.task = "download_translate"
            => Wrote(wire.writes, wire.series, wire.chapters[i].index,
                     "translation_status", "LOADING")

C1_Witness ==
  /\ wire.kind = "immediate"
  /\ wire.request.task = "download_translate"
  /\ Len(wire.chapters) = 2
  /\ Len(wire.writes) = 4

\* C2: a batch reaches the downloader or cleaner queue only after its
\* immediate message was published, so every queued batch, and every terminal
\* message an executor publishes, belongs to a batch already announced.
C2_EnqueueAfterBroadcast ==
  /\ \A i \in DOMAIN downloaderQ : downloaderQ[i].announced
  /\ \A i \in DOMAIN cleanerQ : cleanerQ[i].announced
  /\ wire.kind = "terminal" => wire.announced

C2_Witness ==
  /\ wire.kind = "terminal"
  /\ wire.announced
  /\ Len(wire.writes) > 0
  /\ cleanerQ # <<>>

\* C3: a handler that wrote LOADING / REMOVING to the cache hands its batch to
\* an executor; stated on finite runs: a handler that ended by an exception,
\* and so never enqueues, has made no optimistic cache write.
C3_OptimisticWriteIsEnqueued ==
  \A s \in Sessions :
    sess[s].pc = "raised" => sess[s].frame.writes = <<>>

\* C4: for one chapter and field, messages are published in the order of the
\* cache writes they announce: while handler a's write to a key is not yet
\* published, no other handler publishes a different value that it wrote to
\* that key after a's write.
C4_BroadcastOrderIsCacheOrder ==
  \A a \in Sessions :
    (/\ wire.kind = "immediate"
     /\ wire.from # a
     /\ AtStep(a, "group_send")
     /\ sess[a].group_name = wire.group)
    => \A wa \in Range(sess[a].frame.writes), wb \in Range(wire.writes) :
         (wa.key = wb.key /\ wa.new # wb.new /\ wb.old = wa.new)
           => cache[wa.key] # wb.new

\* C5: a dispatcher that accepts a request sets a status field to LOADING
\* only from NONE, READY or ERROR, and to REMOVING only from READY.
C5_TransitionTable ==
  \A s \in Sessions :
    \A w \in Range(sess[s].frame.writes) :
      (sess[s].pc = "running" /\ w.key[3] \in StatusFields) =>
        /\ w.new = "LOADING" => w.old \in {"NONE", "READY", "ERROR"}
        /\ w.new = "REMOVING" => w.old = "READY"

\* C6: a download_translate submit writes LOADING to both fields of every
\* chapter of the batch, in the cache and in the chapters of its one
\* immediate message; a download submit writes download_status only.
C6_DownloadTranslateSetsBoth ==
  /\ \A s \in Sessions :
       LET f == sess[s].frame IN
         /\ (sess[s].pc = "running" /\ f.request.task = "download_translate")
              => /\ \A i \in DOMAIN f.chapters :
                      /\ f.chapters[i].download_status = "LOADING"
                      /\ f.chapters[i].translation_status = "LOADING"
                      /\ Wrote(f.writes, sess[s].manhwa_id, f.chapters[i].index,
                               "download_status", "LOADING")
                      /\ Wrote(f.writes, sess[s].manhwa_id, f.chapters[i].index,
                               "translation_status", "LOADING")
                 /\ f.sent <= 1
         /\ f.request.task = "download"
              => /\ WritesTo(f.writes, "translation_status") = {}
                 /\ \A i \in DOMAIN f.chapters :
                      f.chapters[i].translation_status = Absent
  /\ (wire.kind = "immediate" /\ wire.request.task = "download_translate")
       => \A i \in DOMAIN wire.chapters :
            /\ wire.chapters[i].download_status = "LOADING"
            /\ wire.chapters[i].translation_status = "LOADING"
  /\ (wire.kind = "immediate" /\ wire.request.task = "download")
       => \A i \in DOMAIN wire.chapters :
            /\ wire.chapters[i].download_status = "LOADING"
            /\ wire.chapters[i].translation_status = Absent

C6_Witness ==
  /\ wire.kind = "immediate"
  /\ wire.request.task = "download"
  /\ Len(wire.chapters) = 2
  /\ \E s \in Sessions :
       /\ sess[s].pc = "running"
       /\ sess[s].frame.request.task = "download_translate"
       /\ Len(sess[s].frame.chapters) = 2

\* C7: a translate submit writes LOADING to translation_status of every
\* chapter of the batch and does not write download_status.
C7_TranslateSetsTranslation ==
  \A s \in Sessions :
    LET f == sess[s].frame IN
      (sess[s].pc = "running" /\ f.request.task = "translate")
        => /\ \A i \in DOMAIN f.chapters :
                Wrote(f.writes, sess[s].manhwa_id, f.chapters[i].index,
                      "translation_status", "LOADING")
           /\ WritesTo(f.writes, "download_status") = {}

\* C8: when the immediate message of a removal with translated = true is
\* published, the handler has written REMOVING to the cached
\* translation_status of every chapter of the batch, and the translated
\* target has written no cache field but translation_status.
C8_RemoveTranslatedSetsTranslation ==
  (/\ wire.kind = "immediate"
   /\ wire.request.task = "remove"
   /\ wire.request.remove_choices.translated = "true")
  => /\ \A i \in DOMAIN wire.chapters :
          /\ wire.chapters[i].translation_status = "REMOVING"
          /\ Wrote(wire.writes, wire.series, wire.chapters[i].index,
                   "translation_status", "REMOVING")
     /\ \A w \in Range(wire.writes) : w.key[3] \in StatusFields

\* C9: a removal with downloaded = true, translated = false writes only
\* download_status (REMOVING), leaving translation_status as it was in the
\* cache and in the chapters of the message; a removal with downloaded = false
\* never writes download_status.
C9_RemovalTouchesOnlyItsTarget ==
  /\ \A s \in Sessions :
       LET f == sess[s].frame
           rc == f.request.remove_choices
       IN  f.handler = "run_remove" =>
             /\ (rc.downloaded = "true" /\ rc.translated = "false")
                  => /\ \A w \in Range(f.writes) :
                          w.key[3] = "download_status" /\ w.new = "REMOVING"
                     /\ \A i \in DOMAIN f.chapters :
                          f.chapters[i].translation_status = Absent
                     /\ sess[s].pc = "running" =>
                          \A i \in DOMAIN f.chapters :
                            Wrote(f.writes, sess[s].manhwa_id,
                                  f.chapters[i].index, "download_status",
                                  "REMOVING")
             /\ rc.downloaded = "false"
                  => /\ WritesTo(f.writes, "download_status") = {}
                     /\ \A i \in DOMAIN f.chapters :
                          f.chapters[i].download_status = Absent
  /\ (/\ wire.kind = "immediate"
      /\ wire.request.task = "remove"
      /\ wire.request.remove_choices.downloaded = "true"
      /\ wire.request.remove_choices.translated = "false")
       => \A i \in DOMAIN wire.chapters :
            /\ wire.chapters[i].download_status = "REMOVING"
            /\ wire.chapters[i].translation_status = Absent

C9_Witness ==
  /\ wire.kind = "immediate"
  /\ wire.request.task = "remove"
  /\ wire.request.remove_choices.downloaded = "true"
  /\ wire.request.remove_choices.translated = "false"
  /\ Len(wire.chapters) = 2
  /\ Len(wire.writes) = 2

\* C10: a malformed request (missing task, chapters, remove_choices or target
\* flag, a chapter without index, an unknown operation kind) is rejected
\* with no effect: the handler ends by an exception with no cache write made.
KnownKinds == {"download", "download_translate", "translate", "remove"}
Malformed(d) ==
  \/ d.task \notin KnownKinds
  \/ ~d.has_chapters
  \/ \E i \in DOMAIN d.chapters : d.chapters[i].index = NoIndex
  \/ /\ d.task = "remove"
     /\ \/ ~d.has_remove_choices
        \/ d.remove_choices.downloaded = Absent
        \/ d.remove_choices.translated = Absent

C10_MalformedRejectedWithoutEffect ==
  \A s \in Sessions :
    (sess[s].frame.handler # "none" /\ Malformed(sess[s].frame.request))
      => /\ sess[s].pc = "raised"
         /\ sess[s].frame.writes = <<>>

\* C15: a download, download_translate or translate submit publishes exactly
\* one immediate message, to the group of the session's series, whose chapters
\* are the chapters of the request in request order and whose counter is
\* {current: 0, total: number of chapters of the batch}.
C15_OneImmediateMessagePerSubmit ==
  /\ (/\ wire.kind = "immediate"
      /\ wire.request.task \in {"download", "download_translate", "translate"})
       => /\ wire.group = sess[wire.from].group_name
          /\ wire.group = GroupName(sess[wire.from].manhwa_id)
          /\ wire.to = groups[wire.group]
          /\ Len(wire.chapters) = Len(wire.request.chapters)
          /\ \A i \in DOMAIN wire.chapters :
               wire.chapters[i].index = wire.request.chapters[i].index
          /\ wire.progress = Progress(0, Len(wire.request.chapters))
          /\ sess[wire.from].frame.sent = 1
  /\ \A s \in Sessions :
       (sess[s].pc = "running"
        /\ sess[s].frame.handler = "run_download_translate")
         => sess[s].frame.sent = IF AtStep(s, "append") THEN 1 ELSE 0
  /\ \A i \in DOMAIN downloaderQ : downloaderQ[i].announced

C15_Witness ==
  /\ wire.kind = "immediate"
  /\ wire.request.task = "translate"
  /\ Len(wire.chapters) = 2
  /\ wire.chapters[1].index = 1
  /\ wire.chapters[2].index = 2
  /\ wire.progress = Progress(0, 2)
  /\ wire.to = Sessions

\* C17: a request received on a session bound to series s affects only s:
\* the handler's step changes only cache entries keyed by s and no group
\* membership, its message goes to the group joined at connect, whose members
\* are all bound to s, and the batch it enqueues names s and that group.
C17_RequestAffectsOnlyItsSeries ==
  [][\A s \in Sessions :
       LET id == sess[s].manhwa_id
           g == sess[s].group_name
       IN  /\ (sess[s].pc = "idle" /\ sess'[s].pc \in {"running", "raised"})
                => /\ \A k \in CacheKeys : cache'[k] # cache[k] => k[1] = id
                   /\ \A w \in Range(sess'[s].frame.writes) : w.key[1] = id
                   /\ UNCHANGED <<store, groups, downloaderQ, cleanerQ>>
                   /\ wire' = NoMessage
           /\ (AtStep(s, "group_send") /\ sess'[s] # sess[s])
                => /\ wire'.group = g
                   /\ wire'.to = groups[g]
                   /\ \A t \in wire'.to : sess[t].manhwa_id = id
                   /\ \A h \in Groups \ {g} : s \notin groups[h]
                   /\ UNCHANGED <<store, cache, groups, downloaderQ, cleanerQ>>
           /\ (AtStep(s, "append") /\ sess'[s] # sess[s])
                => LET q == IF sess[s].frame.handler = "run_remove"
                              THEN cleanerQ' ELSE downloaderQ'
                       e == q[Len(q)]
                   IN  /\ Len(downloaderQ') + Len(cleanerQ')
                            = Len(downloaderQ) + Len(cleanerQ) + 1
                       /\ e.manhwa_id = id
                       /\ e.group_name = g
                       /\ \A t \in groups[e.group_name] :
                            sess[t].manhwa_id = id
                       /\ UNCHANGED <<store, cache, groups>>
    ]_vars

C17_Witness ==
  /\ sess[1].manhwa_id = "/a"
  /\ sess[2].manhwa_id = "/b"
  /\ wire.kind = "immediate"
  /\ wire.from = 2
  /\ wire.to = {2}
  /\ cleanerQ # <<>>
  /\ cleanerQ[1].manhwa_id = "/a"
  /\ \E i \in Idx : cache[<<"/a", i, "download_status">>] = "REMOVING"
  /\ \E i \in Idx : cache[<<"/b", i, "download_status">>] = "LOADING"

\* C16: a well-formed submit whose chapters already hold a terminal value
\* (READY or ERROR, left by an earlier run) in the field the operation targets
\* starts a fresh cycle: the step of the handler sets that field to LOADING in
\* the cache for every chapter and leaves the handler about to publish a
\* message with current 0 and then to enqueue the batch.
C16_ResubmitStartsFreshCycle ==
  [][\A s \in Sessions :
       LET f == sess'[s].frame
           id == sess[s].manhwa_id
       IN  (/\ sess[s].pc = "idle"
            /\ sess'[s].pc \in {"running", "raised"}
            /\ f.request.task \in {"download", "download_translate",
                                    "translate"}
            /\ ~Malformed(f.request))
           => /\ sess'[s].pc = "running"
              /\ f.progress = Progress(0, Len(f.request.chapters))
              /\ Steps(f.handler)[f.step] = "group_send"
              /\ Steps(f.handler)[f.step + 1] = "append"
              /\ \A i \in DOMAIN f.request.chapters :
                   \A field \in Range(StageFields(f.request.task)) :
                     LET k == <<id, f.request.chapters[i].index, field>>
                     IN  cache[k] \in {"READY", "ERROR"}
                           => cache'[k] = "LOADING"
    ]_vars

\* C12: the members of each group are exactly the sessions that joined it and
\* have not terminated, and a message published to a group reaches exactly
\* those sessions.
Live(s) == sess[s].pc \in {"idle", "running"}

C12_MembersAreLiveSessions ==
  /\ \A g \in Groups :
       groups[g] = {s \in Sessions : Live(s) /\ sess[s].group_name = g}
  /\ wire.kind # "none"
       => wire.to = {s \in Sessions : Live(s) /\ sess[s].group_name = wire.group}

\* C11: every status change a session handler writes to the store or to the
\* Status Cache is followed by a published message; stated on finite runs: no
\* handler (QtConsumer.receive, run_download_translate, run_remove) ends by an
\* exception after it has written a status.
C11_StatusChangeIsPublished ==
  /\ qt.pc = "raised" => qt.frame.saved = <<>> /\ qt.frame.writes = <<>>
  /\ \A s \in Sessions : sess[s].pc = "raised" => sess[s].frame.writes = <<>>

\* C13: on a translation-ready message with all its keys, QtConsumer.receive
\* writes translation_status READY to the chapter's row of the store and
\* nothing else (no download_status changes), then writes READY to the
\* chapter's translation_status in the cache and nothing else, then publishes
\* one message for the chapter to the series group and ends; no step of it
\* enqueues anything.
QtKey == <<qt.frame.toonkor_id, qt.frame.chapter>>

C13_QtReceiveShortCircuit ==
  [][(qt.pc = "running" /\ qt.frame.data.has_progress /\ qt' # qt)
       => /\ UNCHANGED <<downloaderQ, cleanerQ, groups>>
          /\ AtQtStep("save") =>
               /\ qt.frame.writes = <<>>
               /\ qt'.pc = "running" =>
                    /\ store'[QtKey].translation_status = "READY"
                    /\ store'[QtKey].download_status
                         = store[QtKey].download_status
                    /\ \A k \in DOMAIN store \ {QtKey} : store'[k] = store[k]
               /\ UNCHANGED cache
               /\ wire' = NoMessage
          /\ AtQtStep("update_cached_chapter") =>
               /\ Len(qt.frame.saved) = 1
               /\ cache'[<<QtKey[1], QtKey[2], "translation_status">>] = "READY"
               /\ \A k \in CacheKeys :
                    k # <<QtKey[1], QtKey[2], "translation_status">>
                      => cache'[k] = cache[k]
               /\ UNCHANGED store
               /\ wire' = NoMessage
          /\ AtQtStep("group_send") =>
               /\ Len(qt.frame.saved) = 1
               /\ Len(qt.frame.writes) = 1
               /\ wire'.kind = "translated"
               /\ wire'.group = GroupName(QtKey[1])
               /\ wire'.to = groups[GroupName(QtKey[1])]
               /\ Len(wire'.chapters) = 1
               /\ wire'.chapters[1].index = QtKey[2]
               /\ qt'.pc = "idle"
               /\ UNCHANGED <<store, cache>>
    ]_vars

\* C14: when the lookup or the save of QtConsumer.receive raises, the step
\* that raises leaves the chapter's translation_status in the Status Cache at
\* ERROR.
C14_StoreFailureReconcilesCache ==
  [][(/\ qt.pc # "raised"
      /\ qt'.pc = "raised"
      /\ qt'.frame.raised_at \in {"get", "save"}
      /\ <<qt'.frame.toonkor_id, qt'.frame.chapter, "translation_status">>
           \in CacheKeys)
       => cache'[<<qt'.frame.toonkor_id, qt'.frame.chapter,
                   "translation_status">>] = "ERROR"
    ]_vars

\* C18: prepare_files maps distinct non-archive input files to distinct
\* paths: it returns one path per input, no two of them equal, no two copies
\* go to the same destination and no copy replaces an existing file.
C18_DistinctOutputs ==
  fh.pc = "done" =>
    /\ Len(fh.file_paths) = Len(fh.inputs)
    /\ \A i, j \in DOMAIN fh.file_paths :
         i # j => fh.file_paths[i] # fh.file_paths[j]
    /\ \A i, j \in DOMAIN fh.copies :
         i # j => fh.copies[i].dst # fh.copies[j].dst
    /\ \A i \in DOMAIN fh.copies : ~fh.copies[i].replaced

Spec == Init /\ [][Next]_vars

\* the sessions submit well-formed download, download_translate and translate
\* batches while the Qt application reports translated chapters
QtSideRequests ==
  {d \in Requests :
     d.task \in {"download", "download_translate", "translate"}
     /\ ~Malformed(d)}

NextQt ==
  \/ \E s \in Sessions, id \in Series : Connect(s, id)
  \/ \E s \in Sessions : Disconnect(s)
  \/ \E s \in Sessions, data \in QtSideRequests : Receive(s, data)
  \/ \E s \in Sessions : GroupSend(s)
  \/ \E s \in Sessions : DownloaderAppend(s)
  \/ \E ok \in [StatusFields -> BOOLEAN] : DownloaderRun(ok)
  \/ QtConnect
  \/ QtDisconnect
  \/ \E data \in QtMessages, ok \in BOOLEAN : QtReceive(data, ok)
  \/ \E ok \in BOOLEAN : QtSave(ok)
  \/ QtUpdateCachedChapter
  \/ QtGroupSend

SpecQt == Init /\ [][NextQt]_vars

NextFiles ==
  \/ SetFilePaths
  \/ \E oks \in [1..MaxFiles -> BOOLEAN] : PrepareFiles(oks)

SpecFiles == Init /\ [][NextFiles]_vars
====
